---- MODULE Spec2Model ----
(***************************************************************************)
(* ip-conductor: a console reader for Instapaper bookmarks.                *)
(*                                                                         *)
(*   src/article_manager.py   ArticleManager: the bookmark cursor          *)
(*                            (current_index), the remote operations and   *)
(*                            the sentence segmentation                    *)
(*   src/ip_conductor.py      run_console: the command loop, and           *)
(*                            handle_speak: the raw-terminal key loop      *)
(*                                                                         *)
(* Python values are modelled as follows.  A string is a sequence of       *)
(* one-character strings.  None and the empty list are told apart where    *)
(* the code tells them apart (a fetch result is a record with a `none'     *)
(* flag).  A bookmark is its id (a positive integer); its title is never   *)
(* empty.  The remote store is the variable `marks' (the unread folder,    *)
(* newest first) together with `online' (whether a request to the store    *)
(* succeeds at the moment).                                                *)
(***************************************************************************)
EXTENDS Integers, Sequences, FiniteSets, TLC

\* ------------------------------------------------------------------ bounds
\* The remote collection holds at most MaxMarks bookmarks.
MaxMarks == 2
\* One speak session reads at most MaxKeys keys.
MaxKeys == 4
\* SpecNext makes at most MaxCalls consecutive next_bookmark() calls ...
MaxCalls == 6
\* ... on a folder of at most MaxSize bookmarks.
MaxSize == 6
\* SpecSeg segments raw texts of at most MaxText characters ...
MaxText == 3
\* ... for which the sentence model reports at most MaxSpans spans.
MaxSpans == 2

\* ArticleManager.__init__(bookmark_limit=25)
bookmark_limit == 25

VARIABLES
    \* ---- the remote store (external collaborator)
    marks,            \* the unread folder: a sequence of distinct bookmark ids
    online,           \* TRUE iff a request to the store succeeds right now
    \* ---- the process environment
    env_width,        \* os.getenv("SPEAK_LINE_WIDTH"): "unset", "40", "abc"
    \* ---- ArticleManager
    current_index,    \* self.current_index
    \* ---- run_console
    pc,               \* where control is: "prompt" (in input("> ")), "done" (a
                      \* command has been handled), the labels of handle_speak,
                      \* "exited" (run_console has returned)
    cmd,              \* the command line of this iteration: [name, n]
    ret,              \* what the manager operation of the command returned (success)
    err,              \* the error_msg of the result of a remote operation the
                      \* command called ("None": no error, or no such call)
    out,              \* the last line printed: [msg, id]
    pre,              \* the state in which the command started: [index, size,
                      \* online, marks]
    after_first,      \* "no" | "moved" | "stayed": a first command (that returned
                      \* True | False), followed by prev commands only
    \* ---- handle_speak
    sentences,        \* the list parse_current_article_sentences() returned
    sentence_index,   \* the speak cursor
    display_sentence, \* the redraw flag
    key,              \* the key read last ("" before the first)
    term,             \* the terminal's mode: "cooked" | "raw"
    old_settings,     \* the mode termios.tcgetattr saved
    exc,              \* the exception leaving handle_speak: "none" or its class
    hl,               \* the result of create_highlight_for_current for the key
                      \* read last (hl.id: the bookmark it was invoked on)
    \* ---- history of the speak session
    entered,          \* TRUE once tty.setraw has run in the session
    restores,         \* calls of termios.tcsetattr(fd, TCSADRAIN, old_settings)
    nkeys,            \* keys read
    nhl,              \* highlight keys handled
    prev_index,       \* sentence_index when the last key was read
    script,           \* how many keys of <<" ", " ", "b", "q">> the key stream has
                      \* followed since the session began (-1: it left the script)
    spoken,           \* the bookmark whose article was segmented (0: none)
    rendered,         \* renders completed since the last key was read (or
                      \* since the session began)
    advances,         \* advance keys (" ") read
    backs,            \* back keys read that moved the speak cursor
    shown,            \* the sentence indices rendered, in order, as long as
                      \* every key read was an advance key (<< >> afterwards)
    \* ---- SpecNext
    start_index,      \* the index before the first call
    calls,            \* next_bookmark() calls made
    \* ---- SpecSeg
    seg_text,         \* the raw text
    seg_spans,        \* the spans the sentence model reported
    seg_out,          \* the list of sentences built by the segmenter's loop
    seg_done          \* TRUE once the segmenter has run

vars == << marks, online, env_width, current_index, pc, cmd, ret, err, out, pre,
           after_first, sentences, sentence_index, display_sentence, key, term,
           old_settings, exc, hl, entered, restores, nkeys, nhl, prev_index,
           script, spoken, rendered, advances, backs, shown, start_index, calls, seg_text, seg_spans,
           seg_out, seg_done >>

speakVars == << sentences, sentence_index, display_sentence, key, term,
                old_settings, exc, hl, entered, restores, nkeys, nhl,
                prev_index, script, spoken, rendered, advances, backs, shown >>
nextVars == << start_index, calls >>
segVars == << seg_text, seg_spans, seg_out, seg_done >>
storeVars == << marks, online >>

\* ------------------------------------------------------------ Python values
Min(a, b) == IF a < b THEN a ELSE b
Max(a, b) == IF a > b THEN a ELSE b

\* str.isspace() characters of the model's alphabet
Whitespace == {" ", "\t"}
Chars == {"a", " ", "\t"}

\* s[a:b] for 0 <= a, b (Python slicing, 0-based, clipped to the string)
Slice(s, a, b) == SubSeq(s, a + 1, Min(b, Len(s)))

RECURSIVE lstrip(_)
lstrip(s) ==
    IF s # << >> /\ Head(s) \in Whitespace THEN lstrip(Tail(s)) ELSE s

RECURSIVE rstrip(_)
rstrip(s) ==
    IF s # << >> /\ s[Len(s)] \in Whitespace
    THEN rstrip(SubSeq(s, 1, Len(s) - 1))
    ELSE s

strip(s) == rstrip(lstrip(s))

\* key.lower()
lower(k) ==
    CASE k = "Q" -> "q"
      [] k = "B" -> "b"
      [] k = "H" -> "h"
      [] OTHER -> k

\* ------------------------------------------------------------- the store
Ids == 1..MaxMarks

RECURSIVE SeqsUpTo(_, _)
\* the sequences of distinct elements of S of length at most n
SeqsUpTo(S, n) ==
    IF n = 0 THEN { << >> }
    ELSE LET shorter == SeqsUpTo(S, n - 1)
         IN  shorter \cup
             { Append(s, x) : s \in { t \in shorter : Len(t) = n - 1 }, x \in S }

Range(s) == { s[i] : i \in 1..Len(s) }
Distinct(s) == Cardinality(Range(s)) = Len(s)
Collections == { s \in SeqsUpTo(Ids, MaxMarks) : Distinct(s) }

\* the sequence s without its element at 0-based position i
RemoveAt(s, i) == SubSeq(s, 1, i) \o SubSeq(s, i + 2, Len(s))

\* an id no bookmark of s has (the store numbers a new bookmark)
FreshId(s) == CHOOSE x \in Ids : x \notin Range(s) /\ \A y \in Ids \ Range(s) : x <= y

NoneMarks == [none |-> TRUE, list |-> << >>]

\* _get_bookmarks that does not notice a failed request (it answers with the
\* folder as it was)
get_bookmarks_stale(remote, up) ==
    [none |-> FALSE, list |-> SubSeq(remote, 1, Min(Len(remote), bookmark_limit))]

\* ArticleManager._get_bookmarks: the first bookmark_limit bookmarks, or None
\* when the request raises
get_bookmarks(remote, up) ==
    IF up
    THEN [none |-> FALSE, list |-> SubSeq(remote, 1, Min(Len(remote), bookmark_limit))]
    ELSE NoneMarks

\* Python truth of a fetch result: None and [] are false
Truthy(m) == ~m.none /\ m.list # << >>

\* marks[i] for a valid 0-based i
At(m, i) == m.list[i + 1]
InRange(m, i) == 0 <= i /\ i < Len(m.list)

\* ------------------------------------------------- ArticleManager: cursor
\* Each navigation operation takes the fetch result it works on (prev_bookmark
\* fetches nothing) and the index, and yields the new index and what it returns.

\* next_bookmark that tests only that there are bookmarks
next_bookmark_no_bound(m, idx) ==
    IF Truthy(m)
    THEN [index |-> idx + 1, ret |-> TRUE]
    ELSE [index |-> idx, ret |-> FALSE]

\* next_bookmark with the bound off by one (`< len(marks)')
next_bookmark_off(m, idx) ==
    IF Truthy(m) /\ idx < Len(m.list)
    THEN [index |-> idx + 1, ret |-> TRUE]
    ELSE [index |-> idx, ret |-> FALSE]

next_bookmark(m, idx) ==
    IF Truthy(m) /\ idx < Len(m.list) - 1
    THEN [index |-> idx + 1, ret |-> TRUE]
    ELSE [index |-> idx, ret |-> FALSE]

\* prev_bookmark without the test for the first position
prev_bookmark_unguarded(idx) == [index |-> idx - 1, ret |-> TRUE]

prev_bookmark(idx) ==
    IF idx > 0
    THEN [index |-> idx - 1, ret |-> TRUE]
    ELSE [index |-> idx, ret |-> FALSE]

\* first_bookmark that reports success without moving the cursor
first_bookmark_unset(m, idx) ==
    IF Truthy(m)
    THEN [index |-> idx, ret |-> TRUE]
    ELSE [index |-> idx, ret |-> FALSE]

first_bookmark(m, idx) ==
    IF Truthy(m)
    THEN [index |-> 0, ret |-> TRUE]
    ELSE [index |-> idx, ret |-> FALSE]

\* last_bookmark that sets the index to len(marks)
last_bookmark_off(m, idx) ==
    IF Truthy(m)
    THEN [index |-> Len(m.list), ret |-> TRUE]
    ELSE [index |-> idx, ret |-> FALSE]

last_bookmark(m, idx) ==
    IF Truthy(m)
    THEN [index |-> Len(m.list) - 1, ret |-> TRUE]
    ELSE [index |-> idx, ret |-> FALSE]

\* set_bookmark_by_number with the upper bound off by one (`<= len(marks)')
set_bookmark_by_number_off(m, idx, bookmark_number) ==
    IF ~Truthy(m)
    THEN [index |-> idx, ret |-> FALSE]
    ELSE LET index == bookmark_number - 1
         IN  IF 0 <= index /\ index <= Len(m.list)
             THEN [index |-> index, ret |-> TRUE]
             ELSE [index |-> idx, ret |-> FALSE]

set_bookmark_by_number(m, idx, bookmark_number) ==
    IF ~Truthy(m)
    THEN [index |-> idx, ret |-> FALSE]
    ELSE LET index == bookmark_number - 1
         IN  IF 0 <= index /\ index < Len(m.list)
             THEN [index |-> index, ret |-> TRUE]
             ELSE [index |-> idx, ret |-> FALSE]

\* ------------------------------------------------ ArticleManager: queries
\* A query yields the bookmark's id, or 0 for None.
get_current_title(m, idx) ==
    IF ~Truthy(m) THEN 0
    ELSE IF InRange(m, idx) THEN At(m, idx) ELSE 0

get_bookmark_count(m) == IF Truthy(m) THEN Len(m.list) ELSE 0

\* is_valid_index with the upper bound off by one (`<= len(marks)')
is_valid_index_off(m, idx) == ~m.none /\ 0 <= idx /\ idx <= Len(m.list)

is_valid_index(m, idx) == ~m.none /\ InRange(m, idx)

get_current_bookmark_info(m, idx) ==
    IF ~Truthy(m) \/ ~InRange(m, idx) THEN 0 ELSE At(m, idx)

\* ------------------------------------------------------ article bodies
\* str(m.text) of bookmark b: bookmark 1 holds white space only, bookmark
\* b > 1 holds b + 1 sentences "a." separated by one blank.
RECURSIVE Body(_)
Body(n) == IF n <= 1 THEN << "a", "." >> ELSE Body(n - 1) \o << " ", "a", "." >>
Article(b) == IF b = 1 THEN << " " >> ELSE Body(b + 1)

\* get_current_article: the text of the current bookmark; << >> stands for None
\* (the caller tests `if not article_text', which None and "" both pass)
get_current_article(m, idx) ==
    IF ~Truthy(m) THEN << >>
    ELSE IF InRange(m, idx) THEN Article(At(m, idx)) ELSE << >>

\* --------------------------------------------------------- segmentation
\* doc.sents of the external sentence model over text T, as spans [s, e]
\* (sent.start_char, sent.end_char); sent.text is T[s:e].  The integrated
\* program is run with a model that ends a sentence after each "." and
\* leaves the blank before the next sentence at that sentence's start.
RECURSIVE SentsFrom(_, _, _)
SentsFrom(T, s, i) ==
    IF i > Len(T)
    THEN IF s < Len(T) THEN << [s |-> s, e |-> Len(T)] >> ELSE << >>
    ELSE IF T[i] = "."
         THEN << [s |-> s, e |-> i] >> \o SentsFrom(T, i, i + 1)
         ELSE SentsFrom(T, s, i + 1)
Sents(T) == SentsFrom(T, 0, 1)

\* sentence_of with leading_spaces taken from the stripped text
\* (`len(sent.text) - len(text)'), which counts trailing white space too
sentence_of_both(T, span) ==
    LET sent_text == Slice(T, span.s, span.e)
        text == strip(sent_text)
        leading_spaces == Len(sent_text) - Len(text)
    IN  [kind |-> "tuple", text |-> text,
         start_char |-> span.s + leading_spaces, end_char |-> span.e]

\* one sentence of the loop of parse_current_article_sentences
\* sentence_of without the adjustment for the stripped leading white space
sentence_of_unadjusted(T, span) ==
    LET sent_text == Slice(T, span.s, span.e)
        text == strip(sent_text)
    IN  [kind |-> "tuple", text |-> text,
         start_char |-> span.s, end_char |-> span.e]

sentence_of(T, span) ==
    LET sent_text == Slice(T, span.s, span.e)
        text == strip(sent_text)
        leading_spaces == Len(sent_text) - Len(lstrip(sent_text))
    IN  [kind |-> "tuple", text |-> text,
         start_char |-> span.s + leading_spaces, end_char |-> span.e]

RECURSIVE segment_keep_blank(_, _)
\* the loop over doc.sents without its `if text:' test
segment_keep_blank(T, spans) ==
    IF spans = << >> THEN << >>
    ELSE << sentence_of(T, Head(spans)) >> \o segment_keep_blank(T, Tail(spans))

RECURSIVE segment(_, _)
\* the loop over doc.sents: spans whose stripped text is empty are skipped
segment(T, spans) ==
    IF spans = << >> THEN << >>
    ELSE LET text == strip(Slice(T, Head(spans).s, Head(spans).e))
         IN  (IF text # << >> THEN << sentence_of(T, Head(spans)) >> ELSE << >>)
             \o segment(T, Tail(spans))

\* parse_current_article_sentences: << >> stands for None (the caller tests
\* `if not sentences')
parse_current_article_sentences(m, idx) ==
    LET article_text == get_current_article(m, idx)
    IN  IF article_text = << >> THEN << >>
        ELSE segment(article_text, Sents(article_text))

\* --------------------------------------- ArticleManager: remote operations
\* delete / star / archive of the current bookmark.  op_ok: the request to the
\* store succeeds (otherwise it raises one of the caught exception classes).
\* The result is (success, title, error_msg), the title as the bookmark's id.
delete_current_bookmark(m, idx, op_ok) ==
    IF ~Truthy(m) THEN [success |-> FALSE, id |-> 0, error |-> "No bookmarks found"]
    ELSE IF InRange(m, idx)
         THEN IF op_ok
              THEN [success |-> TRUE, id |-> At(m, idx), error |-> "None"]
              ELSE [success |-> FALSE, id |-> At(m, idx), error |-> "str(e)"]
         ELSE [success |-> FALSE, id |-> 0, error |-> "Current index is out of range"]

\* star_current_bookmark whose except clause returns no message
star_current_bookmark_silent(m, idx, op_ok) ==
    IF ~Truthy(m) THEN [success |-> FALSE, id |-> 0, error |-> "No bookmarks found"]
    ELSE IF InRange(m, idx)
         THEN IF op_ok
              THEN [success |-> TRUE, id |-> At(m, idx), error |-> "None"]
              ELSE [success |-> FALSE, id |-> At(m, idx), error |-> "None"]
         ELSE [success |-> FALSE, id |-> 0, error |-> "Current index is out of range"]

star_current_bookmark(m, idx, op_ok) ==
    IF ~Truthy(m) THEN [success |-> FALSE, id |-> 0, error |-> "No bookmarks found"]
    ELSE IF InRange(m, idx)
         THEN IF op_ok
              THEN [success |-> TRUE, id |-> At(m, idx), error |-> "None"]
              ELSE [success |-> FALSE, id |-> At(m, idx), error |-> "str(e)"]
         ELSE [success |-> FALSE, id |-> 0, error |-> "Current index is out of range"]

archive_current_bookmark(m, idx, op_ok) ==
    IF ~Truthy(m) THEN [success |-> FALSE, id |-> 0, error |-> "No bookmarks found"]
    ELSE IF InRange(m, idx)
         THEN IF op_ok
              THEN [success |-> TRUE, id |-> At(m, idx), error |-> "None"]
              ELSE [success |-> FALSE, id |-> At(m, idx), error |-> "str(e)"]
         ELSE [success |-> FALSE, id |-> 0, error |-> "Current index is out of range"]

add_bookmark_url(url, op_ok) ==
    IF url = << >> \/ strip(url) = << >>
    THEN [success |-> FALSE, error |-> "No URL provided"]
    ELSE IF op_ok
         THEN [success |-> TRUE, error |-> "None"]
         ELSE [success |-> FALSE, error |-> "str(e)"]

\* A text handed to create_highlight_for_current: a str, or the tuple
\* (text, start_char, end_char) that parse_current_article_sentences returns.
Str(t) == [kind |-> "str", text |-> t, start_char |-> 0, end_char |-> 0]
IsStr(x) == x.kind = "str"

\* create_highlight_for_current(highlight_text): (success, title, highlight_text,
\* error_msg) as [success, id, text, error], or the exception it lets through
\* (`raised').  A tuple is true
\* and has no strip(): AttributeError, outside the method's try.
create_highlight_for_current(m, idx, highlight_text, op_ok) ==
    LET result(ok, id, error, raised) ==
            [text |-> highlight_text.text, success |-> ok, id |-> id,
             error |-> error, raised |-> raised]
    IN  IF ~Truthy(m)
        THEN result(FALSE, 0, "No bookmarks found", "none")
        ELSE IF InRange(m, idx)
             THEN IF ~IsStr(highlight_text)
                  THEN result(FALSE, 0, "None", "AttributeError")
                  ELSE IF highlight_text.text = << >> \/ strip(highlight_text.text) = << >>
                  THEN result(FALSE, At(m, idx), "No text provided for highlight", "none")
                  ELSE IF op_ok
                  THEN result(TRUE, At(m, idx), "None", "none")
                  ELSE result(FALSE, At(m, idx), "str(e)", "none")
             ELSE result(FALSE, 0, "Current index is out of range", "none")

\* ------------------------------------------------------------ ip_conductor
Line(msg, id) == [msg |-> msg, id |-> id]

\* display_title: the title, or which of the two messages
display_title(remote, up, idx) ==
    LET title == get_current_title(get_bookmarks(remote, up), idx)
    IN  IF title # 0 THEN Line("title", title)
        ELSE IF get_bookmark_count(get_bookmarks(remote, up)) = 0
             THEN Line("No bookmarks found.", 0)
             ELSE Line("Current index is out of range.", 0)

\* int(os.getenv("SPEAK_LINE_WIDTH", "70")): the width, or 0 when int() raises
\* ValueError
WidthSettings == {"unset", "40", "abc"}
line_width(setting) ==
    CASE setting = "unset" -> 70
      [] setting = "40" -> 40
      [] OTHER -> 0

Fetch == get_bookmarks(marks, online)
Cmd(name, n) == [name |-> name, n |-> n]
Entry ==
    [index |-> current_index, size |-> Len(marks), online |-> online, marks |-> marks]

\* One iteration of run_console's loop: command c is read and handled, with
\* result r, last printed line o and index idx.
CommandErr(c, r, o, idx, e) ==
    /\ pc = "prompt"
    /\ cmd' = c
    /\ ret' = r
    /\ err' = e
    /\ out' = o
    /\ current_index' = idx
    /\ pre' = Entry
    /\ pc' = "done"
    /\ UNCHANGED << env_width, speakVars, nextVars, segVars >>

\* a command that calls no remote operation
Command(c, r, o, idx) == CommandErr(c, r, o, idx, "None")

\* handle_navigation
CmdNext ==
    LET r == next_bookmark(Fetch, current_index)
    IN  /\ Command(Cmd("next", 0), r.ret,
                   IF r.ret THEN display_title(marks, online, r.index)
                   ELSE Line("Already at the last bookmark.", 0),
                   r.index)
        /\ after_first' = "no"
        /\ UNCHANGED storeVars

CmdPrev ==
    LET r == prev_bookmark(current_index)
    IN  /\ Command(Cmd("prev", 0), r.ret,
                   IF r.ret THEN display_title(marks, online, r.index)
                   ELSE Line("Already at the first bookmark.", 0),
                   r.index)
        /\ UNCHANGED << after_first, storeVars >>

CmdFirst ==
    LET r == first_bookmark(Fetch, current_index)
    IN  /\ Command(Cmd("first", 0), r.ret,
                   IF r.ret THEN display_title(marks, online, r.index)
                   ELSE Line("No bookmarks found.", 0),
                   r.index)
        /\ after_first' = IF r.ret THEN "moved" ELSE "stayed"
        /\ UNCHANGED storeVars

CmdLast ==
    LET r == last_bookmark(Fetch, current_index)
    IN  /\ Command(Cmd("last", 0), r.ret,
                   IF r.ret THEN display_title(marks, online, r.index)
                   ELSE Line("No bookmarks found.", 0),
                   r.index)
        /\ after_first' = "no"
        /\ UNCHANGED storeVars

\* the ordinals a user types: one below and one above every valid one
Ordinals == (0 - 1)..(MaxMarks + 1)

\* a bare integer: jump to that ordinal
CmdNumber ==
    \E bookmark_num \in Ordinals :
        LET r == set_bookmark_by_number(Fetch, current_index, bookmark_num)
        IN  /\ Command(Cmd("number", bookmark_num), r.ret,
                       IF r.ret THEN display_title(marks, online, r.index)
                       ELSE Line("Invalid article number", 0),
                       r.index)
            /\ after_first' = "no"
            /\ UNCHANGED storeVars

CmdTitle ==
    /\ Command(Cmd("title", 0), get_current_title(Fetch, current_index) # 0,
               display_title(marks, online, current_index), current_index)
    /\ after_first' = "no"
    /\ UNCHANGED storeVars

\* display_bookmarks: the last line printed is the last title of the list
CmdBookmarks ==
    LET m == Fetch
    IN  /\ Command(Cmd("bookmarks", 0), Truthy(m),
                   IF Truthy(m) THEN Line("title", At(m, Len(m.list) - 1))
                   ELSE Line("No bookmarks found.", 0),
                   current_index)
        /\ after_first' = "no"
        /\ UNCHANGED storeVars

\* display_article(manager): read the current bookmark
CmdRead ==
    LET article == get_current_article(Fetch, current_index)
    IN  /\ Command(Cmd("read", 0),
                   line_width(env_width) # 0 /\ article # << >>,
                   IF line_width(env_width) = 0 THEN Line("An error occurred", 0)
                   ELSE IF article # << >>
                        THEN Line("article", At(Fetch, current_index))
                        ELSE IF get_bookmark_count(Fetch) = 0
                             THEN Line("No bookmarks found.", 0)
                             ELSE Line("Current index is out of range.", 0),
                   current_index)
        /\ after_first' = "no"
        /\ UNCHANGED storeVars

\* display_article(manager, bookmark_number): read <number>
CmdReadNumber ==
    \E bookmark_num \in Ordinals :
        LET r == set_bookmark_by_number(Fetch, current_index, bookmark_num)
            article == get_current_article(Fetch, r.index)
        IN  /\ IF line_width(env_width) = 0
               THEN Command(Cmd("read n", bookmark_num), FALSE,
                            Line("An error occurred", 0), current_index)
               ELSE Command(Cmd("read n", bookmark_num), r.ret,
                            IF ~r.ret THEN Line("Invalid bookmark number", 0)
                            ELSE IF article # << >>
                                 THEN Line("article", At(Fetch, r.index))
                                 ELSE Line("Unable to read bookmark", 0),
                            r.index)
            /\ after_first' = "no"
            /\ UNCHANGED storeVars

\* "read x", "read 1 2", and any other text
CmdUnknown ==
    \E text \in {"read x", "read 1 2", "other"} :
        /\ Command(Cmd(text, 0), FALSE,
                   CASE text = "read x" -> Line("Invalid bookmark number. Usage", 0)
                     [] text = "read 1 2" -> Line("Usage: read <number>", 0)
                     [] OTHER -> Line("Unknown command.", 0),
                   current_index)
        /\ after_first' = "no"
        /\ UNCHANGED storeVars

\* handle_delete_bookmark: a successful delete removes the bookmark from the
\* store and then displays the title at the (unchanged) index
CmdDelete ==
    \E op_ok \in BOOLEAN :
        LET info == get_current_bookmark_info(Fetch, current_index)
            r == delete_current_bookmark(Fetch, current_index, op_ok)
            left == IF r.success THEN RemoveAt(marks, current_index) ELSE marks
        IN  /\ CommandErr(Cmd("delete", 0), info # 0 /\ r.success,
                          IF info = 0 THEN Line("No bookmark to delete.", 0)
                          ELSE IF r.success
                               THEN display_title(left, online, current_index)
                               ELSE Line("Error deleting bookmark", 0),
                          current_index,
                          IF info = 0 THEN "None" ELSE r.error)
            /\ marks' = IF info # 0 THEN left ELSE marks
            /\ after_first' = "no"
            /\ UNCHANGED online

\* handle_star_bookmark: a star does not change the unread folder
CmdStar ==
    \E op_ok \in BOOLEAN :
        LET r == star_current_bookmark(Fetch, current_index, op_ok)
        IN  /\ CommandErr(Cmd("star", 0), r.success,
                          IF r.success THEN Line("starred successfully", r.id)
                          ELSE Line("Error starring bookmark", 0),
                          current_index, r.error)
            /\ after_first' = "no"
            /\ UNCHANGED storeVars

\* handle_archive_bookmark: an archived bookmark leaves the unread folder
CmdArchive ==
    \E op_ok \in BOOLEAN :
        LET r == archive_current_bookmark(Fetch, current_index, op_ok)
        IN  /\ CommandErr(Cmd("archive", 0), r.success,
                          IF r.success THEN Line("archived successfully", r.id)
                          ELSE Line("Error archiving bookmark", 0),
                          current_index, r.error)
            /\ marks' = IF r.success THEN RemoveAt(marks, current_index) ELSE marks
            /\ after_first' = "no"
            /\ UNCHANGED online

\* handle_add_bookmark: the URL typed is empty, blank or a URL; a saved
\* bookmark is the newest of the folder.  The store accepts one only while it
\* is reachable and holds fewer than MaxMarks.
CmdAdd ==
    \E url \in { << >>, << " " >>, << "u" >> }, op_ok \in BOOLEAN :
        LET r == add_bookmark_url(strip(url), op_ok)
        IN  /\ op_ok => online /\ Len(marks) < MaxMarks
            /\ CommandErr(Cmd("add", 0), strip(url) # << >> /\ r.success,
                          IF strip(url) = << >> THEN Line("No URL entered.", 0)
                          ELSE IF r.success THEN Line("Bookmark added successfully", 0)
                               ELSE Line("Error adding bookmark", 0),
                          current_index,
                          IF strip(url) = << >> THEN "None" ELSE r.error)
            /\ marks' = IF strip(url) # << >> /\ r.success
                        THEN << FreshId(marks) >> \o marks
                        ELSE marks
            /\ after_first' = "no"
            /\ UNCHANGED online

\* handle_create_highlight: the text typed is empty or not
CmdHighlight ==
    \E text \in { << >>, << "a" >> }, op_ok \in BOOLEAN :
        LET info == get_current_bookmark_info(Fetch, current_index)
            r == create_highlight_for_current(Fetch, current_index, Str(text), op_ok)
        IN  /\ CommandErr(Cmd("highlight", 0), info # 0 /\ text # << >> /\ r.success,
                          IF info = 0 THEN Line("No bookmark to create highlight for.", 0)
                          ELSE IF text = << >> THEN Line("No text entered.", 0)
                               ELSE IF r.success THEN Line("Highlight created", r.id)
                                    ELSE Line("Error creating highlight", 0),
                          current_index,
                          IF info = 0 \/ text = << >> THEN "None" ELSE r.error)
            /\ after_first' = "no"
            /\ UNCHANGED storeVars

\* "exit"; Ctrl-C at the prompt (KeyboardInterrupt out of input()), which the
\* first except clause answers with "Goodbye!" and break; and the end of the
\* input (EOFError out of input()), which neither except clause names: it
\* leaves run_console as an exception
CmdExit ==
    \E how \in {"exit", "KeyboardInterrupt", "EOFError"} :
        /\ pc = "prompt"
        /\ pc' = "exited"
        /\ cmd' = Cmd(how, 0)
        /\ ret' = (how # "EOFError")
        /\ err' = "None"
        /\ out' = IF how = "EOFError" THEN Line("Traceback", 0) ELSE Line("Goodbye!", 0)
        /\ pre' = Entry
        /\ after_first' = "no"
        /\ UNCHANGED << current_index, env_width, storeVars, speakVars, nextVars,
                        segVars >>

\* ------------------------------------------------- the store's other users
\* Another client adds a bookmark, removes (deletes or archives) one, or the
\* store becomes (un)reachable.  The program sees it at its next request, so
\* the changes are taken where the program's next step makes requests: at the
\* prompt, and before the highlight call of speak mode.
AtRequest == pc \in {"prompt", "highlight"}

EnvAdd ==
    /\ AtRequest
    /\ Len(marks) < MaxMarks
    /\ marks' = << FreshId(marks) >> \o marks
    /\ UNCHANGED << online, env_width, current_index, pc, cmd, ret, err, out, pre,
                    after_first, speakVars, nextVars, segVars >>

EnvRemove ==
    \E i \in 0..(Len(marks) - 1) :
        /\ AtRequest
        /\ marks' = RemoveAt(marks, i)
        /\ UNCHANGED << online, env_width, current_index, pc, cmd, ret, err, out, pre,
                        after_first, speakVars, nextVars, segVars >>

EnvToggle ==
    /\ AtRequest
    /\ online' = ~online
    /\ UNCHANGED << marks, env_width, current_index, pc, cmd, ret, err, out, pre,
                    after_first, speakVars, nextVars, segVars >>

\* ------------------------------------------------------------ handle_speak
\* The sentences as plain strings: what the loop body of handle_speak works on
\* (textwrap.wrap, [:50], create_highlight_for_current(...).strip()).
TextOnly(sents) == [i \in 1..Len(sents) |-> Str(sents[i].text)]

NoHighlight ==
    [text |-> << >>, success |-> FALSE, id |-> 0, error |-> "unset", raised |-> "none"]

\* the loop's head with `while sentence_index <= len(sentences)'
loop_head_off(idx, display, sents) ==
    IF idx <= Len(sents)
    THEN IF display THEN "render" ELSE "key"
    ELSE "finally"

\* `while sentence_index < len(sentences)' followed by `if display_sentence':
\* where control goes from the loop's head
loop_head(idx, display, sents) ==
    IF idx < Len(sents)
    THEN IF display THEN "render" ELSE "key"
    ELSE "finally"

\* sentences[sentence_index] (Python indexing: a negative index counts from
\* the end)
PyIndex(sents, i) == IF i >= 0 THEN sents[i + 1] ELSE sents[Len(sents) + i + 1]

\* Entry of handle_speak with the list `sents' from
\* manager.parse_current_article_sentences(): up to termios.tcgetattr, or to
\* the early return, or to the ValueError of int(os.getenv(...)), which
\* run_console catches.
SpeakEnter(sents) ==
    /\ pc = "prompt"
    /\ cmd' = Cmd("speak", 0)
    \* the folder at entry is not recorded: spoken names the session's bookmark
    /\ pre' = [Entry EXCEPT !.marks = << >>]
    /\ after_first' = "no"
    /\ spoken' = get_current_title(Fetch, current_index)
    /\ sentence_index' = 0
    /\ display_sentence' = TRUE
    /\ key' = ""
    /\ exc' = "none"
    /\ hl' = NoHighlight
    /\ entered' = FALSE
    /\ restores' = 0
    /\ nkeys' = 0
    /\ nhl' = 0
    /\ prev_index' = 0
    /\ script' = 0
    /\ rendered' = 0
    /\ advances' = 0
    /\ backs' = 0
    /\ shown' = << >>
    /\ IF sents = << >>
       THEN /\ out' = Line("No article content available to speak.", 0)
            /\ ret' = FALSE
            /\ err' = "None"
            /\ pc' = "done"
            /\ sentences' = << >>
            /\ old_settings' = old_settings
       ELSE IF line_width(env_width) = 0
       THEN /\ out' = Line("An error occurred", 0)
            /\ ret' = FALSE
            /\ err' = "None"
            /\ pc' = "done"
            /\ sentences' = << >>
            /\ old_settings' = old_settings
       ELSE /\ out' = Line("Entering Speak Mode", Len(sents))
            /\ ret' = TRUE
            /\ err' = "None"
            /\ pc' = "setraw"
            /\ sentences' = sents
            /\ old_settings' = term
    /\ UNCHANGED << term, current_index, env_width, storeVars, nextVars, segVars >>

\* the `speak' command of run_console, with the ArticleManager's sentences
CmdSpeak == SpeakEnter(parse_current_article_sentences(Fetch, current_index))

\* handle_speak called with a manager whose sentences are the same, as the
\* tuples ArticleManager returns or as plain strings
SpeakCall ==
    \E kind \in {"tuple", "str"} :
        LET sents == parse_current_article_sentences(Fetch, current_index)
        IN  SpeakEnter(IF kind = "str" THEN TextOnly(sents) ELSE sents)

\* what is left alone by every step inside handle_speak
SpeakFrame ==
    UNCHANGED << marks, online, env_width, current_index, cmd, ret, err, pre,
                 after_first, sentences, old_settings, spoken, nextVars, segVars >>

\* a tty.setraw that leaves the terminal as it is
tty_setraw_noop(mode) == mode

\* tty.setraw(fd): the terminal's mode afterwards
tty_setraw(mode) == "raw"

\* tty.setraw(fd); sentence_index = 0; display_sentence = True
SetRaw ==
    /\ pc = "setraw"
    /\ term' = tty_setraw(term)
    /\ entered' = TRUE
    /\ sentence_index' = 0
    /\ display_sentence' = TRUE
    /\ pc' = loop_head(0, TRUE, sentences)
    /\ SpeakFrame
    /\ UNCHANGED << out, key, exc, hl, restores, nkeys, nhl, prev_index, script, rendered, advances,
                    backs, shown >>

\* the rendering of sentences[sentence_index]: textwrap.wrap raises
\* AttributeError on anything but a str
Render ==
    /\ pc = "render"
    /\ IF IsStr(PyIndex(sentences, sentence_index))
       THEN /\ out' = Line("render", sentence_index + 1)
            /\ rendered' = rendered + 1
            /\ shown' = IF advances = nkeys THEN Append(shown, sentence_index)
                         ELSE shown
            /\ pc' = "key"
            /\ exc' = exc
       ELSE /\ out' = out
            /\ rendered' = rendered
            /\ shown' = shown
            /\ pc' = "finally"
            /\ exc' = "AttributeError"
    /\ SpeakFrame
    /\ UNCHANGED << sentence_index, display_sentence, key, term, hl, entered,
                    restores, nkeys, nhl, prev_index, script, advances, backs >>

Keys == {"q", "Q", " ", "b", "B", "h", "H", "x"}
Script == << " ", " ", "b", "q" >>

\* the back key without its guard
speak_back_unguarded(i) == i - 1

\* `if sentence_index > 0: sentence_index -= 1'
speak_back(i) == IF i > 0 THEN i - 1 ELSE i

\* an unrecognised key that asks for a redraw
other_display_redraw == TRUE

\* display_sentence after any other key
other_display == FALSE

\* a highlight that asks for a redraw
hl_display_redraw == TRUE

\* display_sentence after a highlight
hl_display == FALSE

\* a tcsetattr that leaves the terminal as it is
tcsetattr_noop(mode, saved) == mode

\* termios.tcsetattr(fd, termios.TCSADRAIN, old_settings): the terminal's mode
\* afterwards
tcsetattr(mode, saved) == saved

\* key = sys.stdin.read(1) and the branch taken on it, up to the loop's head
\* (for h/H: up to the restored terminal, before the highlight call)
ReadKey ==
    \E k \in Keys :
        /\ pc = "key"
        /\ nkeys < MaxKeys
        /\ key' = k
        /\ hl' = NoHighlight
        /\ nkeys' = nkeys + 1
        /\ rendered' = 0
        /\ advances' = IF k = " " THEN advances + 1 ELSE advances
        /\ backs' = IF lower(k) = "b" /\ speak_back(sentence_index) # sentence_index
                    THEN backs + 1 ELSE backs
        /\ shown' = IF k = " " /\ advances = nkeys THEN shown ELSE << >>
        /\ prev_index' = sentence_index
        /\ script' = IF script >= 0 /\ script < Len(Script) /\ k = Script[script + 1]
                     THEN script + 1 ELSE 0 - 1
        /\ CASE lower(k) = "q" ->
                    /\ pc' = "finally"
                    /\ UNCHANGED << sentence_index, display_sentence, term, restores,
                                    nhl >>
             [] k = " " ->
                    /\ sentence_index' = sentence_index + 1
                    /\ display_sentence' = TRUE
                    /\ pc' = loop_head(sentence_index + 1, TRUE, sentences)
                    /\ UNCHANGED << term, restores, nhl >>
             [] lower(k) = "b" ->
                    /\ sentence_index' = speak_back(sentence_index)
                    /\ display_sentence' = TRUE
                    /\ pc' = loop_head(speak_back(sentence_index), TRUE, sentences)
                    /\ UNCHANGED << term, restores, nhl >>
             [] lower(k) = "h" ->
                    /\ term' = tcsetattr(term, old_settings)
                    /\ restores' = restores + 1
                    /\ nhl' = nhl + 1
                    /\ pc' = "highlight"
                    /\ UNCHANGED << sentence_index, display_sentence >>
             [] OTHER ->
                    /\ display_sentence' = other_display
                    /\ pc' = loop_head(sentence_index, other_display, sentences)
                    /\ UNCHANGED << sentence_index, term, restores, nhl >>
        /\ SpeakFrame
        /\ UNCHANGED << out, exc, entered >>

\* manager.create_highlight_for_current(sentence_text), the terminal cooked
HighlightCall ==
    \E op_ok \in BOOLEAN :
        LET r == create_highlight_for_current(Fetch, current_index,
                                              PyIndex(sentences, sentence_index), op_ok)
        IN  /\ pc = "highlight"
            /\ hl' = r
            /\ IF r.raised = "none"
               THEN pc' = "hl_done" /\ exc' = exc
               ELSE pc' = "finally" /\ exc' = r.raised
            /\ SpeakFrame
            /\ UNCHANGED << out, sentence_index, display_sentence, key, term, entered,
                            restores, nkeys, nhl, prev_index, script, rendered, advances,
                    backs, shown >>

\* the line reporting the result of the call
HighlightReport ==
    /\ pc = "hl_done"
    /\ out' = IF hl.success THEN Line("Highlighted", hl.id)
              ELSE Line("Error highlighting", 0)
    /\ pc' = "hl_printed"
    /\ SpeakFrame
    /\ UNCHANGED << sentence_index, display_sentence, key, term, exc, hl, entered,
                    restores, nkeys, nhl, prev_index, script, rendered, advances,
                    backs, shown >>

\* tty.setraw(fd); display_sentence = False; and on to the loop's head
HighlightResume ==
    /\ pc = "hl_printed"
    /\ out' = out
    /\ term' = tty_setraw(term)
    /\ display_sentence' = hl_display
    /\ pc' = loop_head(sentence_index, hl_display, sentences)
    /\ SpeakFrame
    /\ UNCHANGED << sentence_index, key, exc, hl, entered, restores, nkeys, nhl,
                    prev_index, script, rendered, advances,
                    backs, shown >>

\* KeyboardInterrupt (SIGINT) anywhere between `try:' and `finally:'
Interrupt ==
    /\ pc \in {"setraw", "render", "key", "highlight", "hl_done", "hl_printed"}
    /\ exc' = "KeyboardInterrupt"
    /\ pc' = "finally"
    /\ SpeakFrame
    /\ UNCHANGED << out, sentence_index, display_sentence, key, term, hl, entered,
                    restores, nkeys, nhl, prev_index, script, rendered, advances,
                    backs, shown >>

\* a run_console whose second except clause does not name AttributeError
after_speak_uncaught(e) ==
    IF e \in {"KeyboardInterrupt", "AttributeError"} THEN "exited" ELSE "done"

\* what an exception leaving handle_speak does in run_console: a
\* KeyboardInterrupt ends the loop, the caught classes print and go on
after_speak(e) == IF e = "KeyboardInterrupt" THEN "exited" ELSE "done"

\* the restore placed after the loop instead of in a finally block: it runs
\* only when no exception is pending
finally_runs_normal_exit(e) == e = "none"

\* try: ... finally: the block runs however control leaves the try
\* statement, with exception e pending ("none": the loop ended or broke)
finally_runs(e) == TRUE

\* the finally block, and the return (or the exception) reaching run_console
Finally ==
    /\ pc = "finally"
    /\ term' = IF finally_runs(exc) THEN tcsetattr(term, old_settings) ELSE term
    /\ restores' = IF finally_runs(exc) THEN restores + 1 ELSE restores
    /\ out' = CASE exc = "none" -> Line("Exiting Speak Mode", 0)
                [] exc = "KeyboardInterrupt" -> Line("Goodbye!", 0)
                [] OTHER -> Line("An error occurred", 0)
    /\ pc' = after_speak(exc)
    /\ SpeakFrame
    /\ UNCHANGED << sentence_index, display_sentence, key, exc, hl, entered, nkeys,
                    nhl, prev_index, script, rendered, advances,
                    backs, shown >>

\* ------------------------------------------------------- specifications
NoCmd == Cmd("none", 0)
NoEntry == [index |-> 0, size |-> 0, online |-> FALSE, marks |-> << >>]

\* The next iteration of `while True': input("> ") prints the prompt; the
\* locals of the iteration before, and those of handle_speak, are gone.
Prompt ==
    /\ pc = "done"
    /\ pc' = "prompt"
    /\ cmd' = NoCmd
    /\ ret' = FALSE
    /\ err' = "None"
    /\ out' = Line("> ", 0)
    /\ pre' = NoEntry
    /\ sentences' = << >>
    /\ sentence_index' = 0
    /\ display_sentence' = TRUE
    /\ key' = ""
    /\ exc' = "none"
    /\ hl' = NoHighlight
    /\ entered' = FALSE
    /\ restores' = 0
    /\ nkeys' = 0
    /\ nhl' = 0
    /\ prev_index' = 0
    /\ script' = 0
    /\ spoken' = 0
    /\ rendered' = 0
    /\ advances' = 0
    /\ backs' = 0
    /\ shown' = << >>
    /\ UNCHANGED << term, old_settings, marks, online, env_width, current_index,
                    after_first, nextVars, segVars >>

InitSpeak ==
    /\ sentences = << >>
    /\ sentence_index = 0
    /\ display_sentence = TRUE
    /\ key = ""
    /\ term = "cooked"
    /\ old_settings = "cooked"
    /\ exc = "none"
    /\ hl = NoHighlight
    /\ entered = FALSE
    /\ restores = 0
    /\ nkeys = 0
    /\ nhl = 0
    /\ prev_index = 0
    /\ script = 0
    /\ spoken = 0
    /\ rendered = 0
    /\ advances = 0
    /\ backs = 0
    /\ shown = << >>

InitOther ==
    /\ start_index = 0
    /\ calls = 0
    /\ seg_text = << >>
    /\ seg_spans = << >>
    /\ seg_out = << >>
    /\ seg_done = FALSE

\* The program after ArticleManager() and the banner of run_console: any
\* folder, the store reachable or not, any setting of the line width.
Init ==
    /\ marks \in Collections
    /\ online \in BOOLEAN
    /\ env_width \in WidthSettings
    /\ current_index = 0
    /\ pc = "prompt"
    /\ cmd = NoCmd
    /\ ret = FALSE
    /\ err = "None"
    /\ out = Line("> ", 0)
    /\ pre = NoEntry
    /\ after_first = "no"
    /\ InitSpeak
    /\ InitOther

Env == EnvAdd \/ EnvRemove \/ EnvToggle

Next ==
    \/ CmdNext \/ CmdPrev \/ CmdFirst \/ CmdLast \/ CmdNumber
    \/ CmdTitle \/ CmdBookmarks \/ CmdRead \/ CmdReadNumber \/ CmdUnknown
    \/ CmdDelete \/ CmdStar \/ CmdArchive \/ CmdAdd \/ CmdHighlight
    \/ CmdSpeak \/ SetRaw \/ Render \/ Interrupt \/ Finally
    \/ CmdExit \/ Prompt
    \/ Env

\* the whole program
Spec == Init /\ [][Next]_vars

\* the whole program, with the loop of run_console going on: after a command
\* has been handled, `while True' reaches input("> ") again
SpecLoop == Init /\ [][Next]_vars /\ WF_vars(Prompt)

\* handle_speak under either kind of sentence list, in the program: the
\* commands that move the cursor, the store's other users, and speak mode
NextSpeak ==
    \/ CmdNext \/ CmdPrev
    \/ SpeakCall \/ SetRaw \/ Render \/ ReadKey \/ HighlightCall \/ HighlightReport
    \/ HighlightResume
    \/ Interrupt \/ Finally
    \/ Prompt
    \/ Env

SpecSpeak == Init /\ [][NextSpeak]_vars

\* the command loop with speak sessions that reach the key loop: every
\* command of run_console, and handle_speak over either kind of sentence list
NextFrame == Next \/ NextSpeak

\* Init with the two width settings that differ in what display_article and
\* handle_speak do: unset (the default of 70) and one that is no number
InitFrame == Init /\ env_width \in {"unset", "abc"}

SpecFrame == InitFrame /\ [][NextFrame]_vars

\* ------------------------------------------- consecutive next_bookmark()
\* A fixed non-empty folder of at most MaxSize bookmarks, any valid index,
\* and nothing but next_bookmark() calls.
InitNext ==
    /\ marks \in { [i \in 1..n |-> i] : n \in 1..MaxSize }
    /\ online = TRUE
    /\ env_width = "unset"
    /\ current_index \in 0..(Len(marks) - 1)
    /\ start_index = current_index
    /\ calls = 0
    /\ pc = "prompt"
    /\ cmd = NoCmd
    /\ ret = FALSE
    /\ err = "None"
    /\ out = Line("> ", 0)
    /\ pre = NoEntry
    /\ after_first = "no"
    /\ InitSpeak
    /\ seg_text = << >>
    /\ seg_spans = << >>
    /\ seg_out = << >>
    /\ seg_done = FALSE

NextCall ==
    LET r == next_bookmark(Fetch, current_index)
    IN  /\ calls < MaxCalls
        /\ calls' = calls + 1
        /\ current_index' = r.index
        /\ ret' = r.ret
        /\ err' = "None"
        /\ pre' = Entry
        /\ UNCHANGED << marks, online, env_width, pc, cmd, out, after_first,
                        speakVars, start_index, segVars >>

SpecNext == InitNext /\ [][NextCall]_vars

\* ------------------------------------------------ the segmenter alone
\* Every raw text of at most MaxText characters and every list of at most
\* MaxSpans spans over it, in order and not overlapping.
RECURSIVE TextsUpTo(_)
TextsUpTo(n) ==
    IF n = 0 THEN { << >> }
    ELSE LET shorter == TextsUpTo(n - 1)
         IN  shorter \cup
             { Append(t, c) : t \in { u \in shorter : Len(u) = n - 1 }, c \in Chars }

SpansFrom(T, from) == { [s |-> a, e |-> b] : a \in from..Len(T), b \in from..Len(T) }

RECURSIVE SpanLists(_, _, _)
SpanLists(T, from, n) ==
    IF n = 0 THEN { << >> }
    ELSE { << >> } \cup
         UNION { { << sp >> \o rest : rest \in SpanLists(T, sp.e, n - 1) } :
                 sp \in { x \in SpansFrom(T, from) : x.s <= x.e } }

InitSeg ==
    /\ seg_text \in TextsUpTo(MaxText)
    /\ seg_spans \in SpanLists(seg_text, 0, MaxSpans)
    /\ seg_out = << >>
    /\ seg_done = FALSE
    /\ marks = << >>
    /\ online = TRUE
    /\ env_width = "unset"
    /\ current_index = 0
    /\ start_index = 0
    /\ calls = 0
    /\ pc = "prompt"
    /\ cmd = NoCmd
    /\ ret = FALSE
    /\ err = "None"
    /\ out = Line("> ", 0)
    /\ pre = NoEntry
    /\ after_first = "no"
    /\ InitSpeak

\* the loop of parse_current_article_sentences over doc.sents
Segment ==
    /\ ~seg_done
    /\ seg_done' = TRUE
    /\ seg_out' = segment(seg_text, seg_spans)
    /\ UNCHANGED << seg_text, seg_spans, marks, online, env_width, current_index,
                    pc, cmd, ret, err, out, pre, after_first, speakVars, nextVars >>

SpecSeg == InitSeg /\ [][Segment]_vars

\* ================================================================ claims
Ended == pc \in {"done", "exited"}
\* control has left the key loop of handle_speak
Left == pc \in {"finally", "done", "exited"}
\* handle_speak got past its early return and the line-width setting
Started == sentences # << >>
AfterCmd(name) == pc = "done" /\ cmd.name = name
\* the size of the collection a fetch made when the command started returned
\* (0 when the fetch failed)
FetchedSize == IF pre.online THEN Min(pre.size, bookmark_limit) ELSE 0

\* C1 (as claimed): the cursor invariant is kept by the destructive commands:
\* a delete or archive command that starts with the cursor in range of the
\* fetched collection ends, if the collection fetched next is not empty, with
\* 0 <= current_index < its size.
C1_CursorInRange ==
    (/\ pc = "done"
     /\ cmd.name \in {"delete", "archive"}
     /\ pre.online
     /\ pre.index < pre.size
     /\ Truthy(Fetch)) =>
        InRange(Fetch, current_index)

\* C2: whenever control is in run_console (at the prompt, after a command,
\* or after the loop has ended) the terminal is in the mode saved before
\* speak mode, the cooked mode it started in: no way out of handle_speak
\* (quit, the last sentence, an exception in rendering or in the highlight
\* call, an interrupt anywhere in the loop) leaves it raw.
C2_TerminalRestored ==
    pc \in {"prompt", "done", "exited"} => (term = old_settings /\ term = "cooked")

\* a session that had made the terminal raw and read keys is interrupted, and
\* the process ends
C2_Witness ==
    /\ pc = "exited"
    /\ entered
    /\ nkeys > 0
    /\ exc = "KeyboardInterrupt"
    /\ term = "cooked"

\* C3: on a fixed folder, next_bookmark() moves the index by one and returns
\* True iff the index was below size - 1, and otherwise returns False and
\* leaves it; so after n calls from index i the index is min(i + n, size - 1),
\* and False is returned exactly when the index was size - 1 already.
C3_NextAdvances ==
    LET size == Len(marks)
    IN  /\ current_index = Min(start_index + calls, size - 1)
        /\ calls > 0 =>
              /\ ret = (pre.index < size - 1)
              /\ current_index = IF pre.index < size - 1 THEN pre.index + 1
                                 ELSE pre.index
              /\ (~ret) = (pre.index = size - 1)

\* calls that moved the index to the end of a folder of three or more, and
\* one more that returned False
C3_Witness ==
    /\ Len(marks) >= 3
    /\ start_index = 0
    /\ calls = Len(marks)
    /\ current_index = Len(marks) - 1
    /\ ~ret

\* C4 (as claimed): after first() and then prev() calls only, the index is 0,
\* whatever the collection was when first() was called.
C4_FirstThenPrevAlwaysZero ==
    after_first # "no" => current_index = 0

\* C4 (amended): after a first() that returned True and then prev() calls
\* only, the index is 0; a first() on an empty or unavailable collection
\* returns False and leaves the index; prev() returns False and leaves the
\* index at 0, and otherwise decrements it and returns True.
C4_FirstThenPrev ==
    /\ after_first = "moved" => current_index = 0
    /\ AfterCmd("first") =>
          /\ ret = (FetchedSize > 0)
          /\ ~ret => current_index = pre.index
    /\ AfterCmd("prev") =>
          /\ ret = (pre.index > 0)
          /\ current_index = IF pre.index > 0 THEN pre.index - 1 ELSE pre.index
    /\ current_index >= 0

\* a prev() after a first() that moved the cursor: it returns False at 0
C4_Witness ==
    /\ AfterCmd("prev")
    /\ after_first = "moved"
    /\ pre.index = 0
    /\ ~ret

\* C5: set_bookmark_by_number(n) sets the index to n - 1 and returns True iff
\* 1 <= n <= size of the fetched collection; otherwise (n = 0, n = size + 1,
\* n < 0, an empty or unavailable collection) it returns False and leaves the
\* index.
C5_SetByNumber ==
    AfterCmd("number") =>
        LET ok == 1 <= cmd.n /\ cmd.n <= FetchedSize
        IN  /\ ret = ok
            /\ current_index = IF ok THEN cmd.n - 1 ELSE pre.index

\* the ordinal one above the size is refused and leaves a non-zero index
C5_Witness ==
    /\ AfterCmd("number")
    /\ pre.online
    /\ pre.size > 0
    /\ cmd.n = pre.size + 1
    /\ pre.index > 0
    /\ ~ret
    /\ current_index = pre.index

NavigationCommands == {"next", "prev", "first", "last", "number"}

\* C6 (as claimed): when the fetch fails, every navigation operation returns
\* False and leaves the index.
C6_FetchFailureStopsAll ==
    (pc = "done" /\ cmd.name \in NavigationCommands /\ ~pre.online) =>
        (~ret /\ current_index = pre.index)

\* C6 (amended): when the fetch fails, next, first, last and set-by-ordinal
\* return False and leave the index; prev, which fetches nothing, still
\* returns False only at index 0 and otherwise decrements the index and
\* returns True.
C6_FetchFailure ==
    /\ (pc = "done" /\ cmd.name \in (NavigationCommands \ {"prev"}) /\ ~pre.online) =>
          (~ret /\ current_index = pre.index)
    /\ (AfterCmd("prev") /\ ~pre.online) =>
          /\ ret = (pre.index > 0)
          /\ current_index = IF pre.index > 0 THEN pre.index - 1 ELSE pre.index

\* the store is unreachable and next() stays although a bookmark follows
C6_Witness ==
    /\ AfterCmd("next")
    /\ ~pre.online
    /\ pre.index < pre.size - 1
    /\ ~ret
    /\ current_index = pre.index

SessionTexts ==
    TextOnly(segment(Article(spoken), Sents(Article(spoken))))

RECURSIVE Kept(_, _)
Kept(T, spans) ==
    IF spans = << >> THEN << >>
    ELSE (IF \E i \in (Head(spans).s + 1)..Head(spans).e : T[i] \notin Whitespace
          THEN << Head(spans) >> ELSE << >>) \o Kept(T, Tail(spans))

\* C10: every sentence (text, start, end) the segmenter returns for text T
\* has T[start:end].strip() == text and a non-empty text, and the sentences
\* are those of the spans that hold a character other than white space, in
\* order: the others are dropped.
C10_SegmentRoundTrip ==
    seg_done =>
        /\ \A i \in 1..Len(seg_out) :
              /\ strip(Slice(seg_text, seg_out[i].start_char, seg_out[i].end_char))
                    = seg_out[i].text
              /\ seg_out[i].text # << >>
        /\ Len(seg_out) = Len(Kept(seg_text, seg_spans))
        /\ \A i \in 1..Len(seg_out) :
              seg_out[i].end_char = Kept(seg_text, seg_spans)[i].e

\* two spans, one of white space only and dropped, the other with white
\* space on both sides of its text
C10_Witness ==
    /\ seg_done
    /\ Len(seg_spans) = 2
    /\ Len(seg_out) = 1
    /\ seg_out[1].text = << "a" >>
    /\ seg_out[1].start_char > 0
    /\ seg_out[1].end_char - seg_out[1].start_char > 1

\* control is inside the try statement of handle_speak
InSession ==
    pc \in {"setraw", "render", "key", "highlight", "hl_done", "hl_printed", "finally"}

\* C11: a speak command on a bookmark whose article has no character other
\* than white space (segmentation yields no sentence), or with no article
\* (no bookmark at the cursor, the folder empty or the store unreachable),
\* prints "No article content available to speak." and returns: the terminal
\* was never made raw, no key was read, nothing was restored; and control is
\* inside the try statement only with a non-empty sentence list.
C11_NoContent ==
    /\ (AfterCmd("speak") /\ strip(get_current_article(Fetch, current_index)) = << >>) =>
          /\ out = Line("No article content available to speak.", 0)
          /\ ~ret
          /\ ~entered
          /\ nkeys = 0
          /\ restores = 0
          /\ exc = "none"
          /\ term = "cooked"
    /\ InSession => sentences # << >>

\* a speak command on the bookmark whose article is white space only
C11_Witness ==
    /\ AfterCmd("speak")
    /\ pre.online
    /\ spoken = 1
    /\ get_current_article(Fetch, current_index) = << " " >>
    /\ out = Line("No article content available to speak.", 0)

\* the size of the collection a fetch returns now (0 when it fails)
SizeNow == IF online THEN Min(Len(marks), bookmark_limit) ELSE 0
\* the cursor is on an item of the collection a fetch returns now
ValidNow == SizeNow > 0 /\ 0 <= current_index /\ current_index < SizeNow

\* C12: in every state, is_valid_index() is True iff the freshly fetched
\* collection has size > 0 and 0 <= current_index < size; get_current_title,
\* get_current_article and get_current_bookmark_info return the title, the
\* text and the info of the item at current_index exactly when that holds,
\* and None otherwise (also when the fetch fails); and the title command
\* prints a title exactly then.
C12_ValidQueries ==
    /\ is_valid_index(Fetch, current_index) = ValidNow
    /\ get_current_title(Fetch, current_index) =
          IF ValidNow THEN marks[current_index + 1] ELSE 0
    /\ get_current_bookmark_info(Fetch, current_index) =
          IF ValidNow THEN marks[current_index + 1] ELSE 0
    /\ get_current_article(Fetch, current_index) =
          IF ValidNow THEN Article(marks[current_index + 1]) ELSE << >>
    /\ AfterCmd("title") =>
          /\ ret = ValidNow
          /\ out = IF ValidNow THEN Line("title", marks[current_index + 1])
                   ELSE IF SizeNow = 0 THEN Line("No bookmarks found.", 0)
                        ELSE Line("Current index is out of range.", 0)

\* the title command with the cursor just past the end of a non-empty folder
C12_Witness ==
    /\ AfterCmd("title")
    /\ SizeNow > 0
    /\ current_index = SizeNow
    /\ ~is_valid_index(Fetch, current_index)
    /\ out = Line("Current index is out of range.", 0)

\* C13: first_bookmark() and last_bookmark(), from every prior index (in range
\* or not): when the fetched collection has size > 0 they set the index to 0
\* and to size - 1 and return True; when it is empty or the fetch fails they
\* return False and leave the index.
C13_FirstLast ==
    /\ AfterCmd("first") =>
          /\ ret = (FetchedSize > 0)
          /\ current_index = IF FetchedSize > 0 THEN 0 ELSE pre.index
    /\ AfterCmd("last") =>
          /\ ret = (FetchedSize > 0)
          /\ current_index = IF FetchedSize > 0 THEN FetchedSize - 1 ELSE pre.index

\* last() from the first of two bookmarks
C13_Witness ==
    /\ AfterCmd("last")
    /\ pre.online
    /\ pre.size = 2
    /\ pre.index = 0
    /\ ret
    /\ current_index = 1

\* last() on an unreachable store with the cursor on the second bookmark
C13_WitnessUnavailable ==
    /\ AfterCmd("last")
    /\ ~pre.online
    /\ pre.index = 1
    /\ ~ret
    /\ current_index = 1

\* the lines run_console and its handlers print for a command that failed
FailureMessages ==
    { "Already at the last bookmark.", "Already at the first bookmark.",
      "No bookmarks found.", "Current index is out of range.",
      "Invalid article number", "Invalid bookmark number",
      "Unable to read bookmark", "Invalid bookmark number. Usage",
      "Usage: read <number>", "Unknown command.", "No bookmark to delete.",
      "Error deleting bookmark", "Error starring bookmark",
      "Error archiving bookmark", "No URL entered.", "Error adding bookmark",
      "No bookmark to create highlight for.", "No text entered.",
      "Error creating highlight", "No article content available to speak.",
      "An error occurred" }

\* run_console has returned because the user asked for it: the exit command,
\* Ctrl-C at the prompt, or an interrupt during speak mode
EndedByUser ==
    \/ cmd.name \in {"exit", "KeyboardInterrupt"}
    \/ cmd.name = "speak" /\ exc = "KeyboardInterrupt"

\* C14 (as claimed): run_console returns only by the exit command or a user
\* interrupt.
C14_LoopEndsOnlyByUser ==
    pc = "exited" => EndedByUser

\* C14 (amended): a command that failed (collection unavailable or empty,
\* ordinal or cursor out of range, a failed delete/star/archive/add/highlight,
\* speak without content) has printed its message, and after every command
\* the loop goes on to the next prompt and nowhere else; the loop ends only
\* at the prompt or in speak mode, by the exit command, by a user interrupt,
\* or by the end of the input, whose EOFError nothing catches.
C14_RecoverableErrors ==
    /\ [](pc = "exited" => (EndedByUser \/ cmd.name = "EOFError"))
    /\ []((pc = "done" /\ ~ret) => out.msg \in FailureMessages)
    /\ [][pc = "done" => pc' = "prompt"]_vars
    /\ [][pc' = "exited" => pc \in {"prompt", "finally"}]_vars
    /\ (pc = "done") ~> (pc = "prompt")

\* a delete the store refused, handled, with the loop still running
C14_Witness ==
    /\ AfterCmd("delete")
    /\ pre.online
    /\ pre.index < pre.size
    /\ ~ret
    /\ marks # << >>
    /\ out = Line("Error deleting bookmark", 0)

\* C15 (as claimed): whatever the line-width setting (unset, an integer, or
\* not an integer), the read command displays the article of the current
\* bookmark when there is one, and the speak command enters speak mode when
\* the article has sentences.
C15_LineWidthNeverFails ==
    /\ (AfterCmd("read") /\ get_current_article(Fetch, current_index) # << >>) =>
          out = Line("article", marks[current_index + 1])
    /\ (AfterCmd("speak") /\ parse_current_article_sentences(Fetch, current_index) # << >>) =>
          (Started /\ entered)

\* C16 (as claimed): whenever a navigation command (next, prev, first, last,
\* a bare ordinal) returns True, the index is in range of the collection a
\* fetch returns at that moment.
C16_TrueMeansInRange ==
    (pc = "done" /\ cmd.name \in NavigationCommands /\ ret) => ValidNow

\* C16 (amended): next, first, last and set-by-ordinal work on the collection
\* fetched during the call, and when one of them returns True the index is in
\* range of that collection, also when the collection had shrunk and left
\* the prior index out of range.  prev fetches nothing: it returns True iff
\* the prior index was above 0, whatever the store holds, and its result is in
\* range of the current collection if the prior index was.
C16_FreshBounds ==
    /\ (pc = "done" /\ cmd.name \in (NavigationCommands \ {"prev"}) /\ ret) => ValidNow
    /\ AfterCmd("prev") =>
          /\ ret = (pre.index > 0)
          /\ (ret /\ pre.index < SizeNow) => ValidNow

\* the folder shrank to one bookmark under a cursor on the second; last()
\* brings the cursor back in range
C16_Witness ==
    /\ AfterCmd("last")
    /\ pre.online
    /\ pre.size = 1
    /\ pre.index = 1
    /\ ret
    /\ current_index = 0

\* control is in the body of the loop of handle_speak, where
\* sentences[sentence_index] has been or is about to be taken
InLoopBody == pc \in {"render", "key", "highlight", "hl_done", "hl_printed"}

\* C17: in a speak session, 0 <= sentence_index <= len(sentences) in every
\* state; in the body of the loop, where the list is indexed for the render
\* and for the highlight, 0 <= sentence_index < len(sentences); and
\* sentence_index = len(sentences) only once the loop has been left.
C17_SpeakCursorInvariant ==
    Started =>
        /\ 0 <= sentence_index /\ sentence_index <= Len(sentences)
        /\ (pc = "setraw" \/ InLoopBody) => sentence_index < Len(sentences)
        /\ sentence_index = Len(sentences) => Left

\* three advance keys over three sentences: the cursor is len(sentences) and
\* the loop has ended
C17_Witness ==
    /\ Len(sentences) = 3
    /\ sentence_index = 3
    /\ key = " "
    /\ nkeys = 3
    /\ pc = "finally"
    /\ exc = "none"

\* the line handle_speak prints for the result hl of a highlight call
ResultLine == IF hl.success THEN Line("Highlighted", hl.id)
              ELSE Line("Error highlighting", 0)

C20_EntryRendersAndWaits ==
    (Started /\ ~IsStr(sentences[1]) /\ Left /\ exc # "KeyboardInterrupt") =>
        (rendered + nkeys >= 1 /\ exc = "none")

RemoteCommands == {"delete", "star", "archive", "add", "highlight"}
\* the error messages a failure result of a remote operation carries
ErrorMessages ==
    { "No bookmarks found", "Current index is out of range",
      "No text provided for highlight", "No URL provided", "str(e)" }

\* C21: after a delete, star, archive, add or highlight command that did not
\* succeed, the folder of the store holds what it held when the command
\* started and current_index is what it was; if the command called the
\* manager's operation, the result carries an error message; and a result
\* that succeeded carries none.
C21_FailedOperationNoEffect ==
    (pc = "done" /\ cmd.name \in RemoteCommands) =>
        /\ ~ret =>
              /\ marks = pre.marks
              /\ current_index = pre.index
              /\ err \in ErrorMessages \cup {"None"}
              /\ err = "None" =>
                    out.msg \in {"No bookmark to delete.", "No URL entered.",
                                 "No bookmark to create highlight for.",
                                 "No text entered."}
        /\ ret => err = "None"
        /\ cmd.name \in {"star", "archive"} => (ret <=> err = "None")

\* a star the store refused: the result carries the exception's message
C21_Witness ==
    /\ AfterCmd("star")
    /\ pre.online
    /\ pre.index < pre.size
    /\ ~ret
    /\ err = "str(e)"
    /\ marks = pre.marks
    /\ marks # << >>

\* C22: after a delete command that succeeded, the title displayed is the
\* title of the bookmark that followed the deleted one in the folder, for
\* every position of the deleted bookmark (the last one included).
C22_DeleteShowsFollower ==
    (AfterCmd("delete") /\ ret) =>
        /\ pre.index + 1 < pre.size
        /\ out = Line("title", pre.marks[pre.index + 2])
        /\ InRange(Fetch, current_index)
        /\ At(Fetch, current_index) = pre.marks[pre.index + 2]

\* the part of C22 the code keeps: when the deleted bookmark had a follower,
\* the follower is displayed and is the current bookmark
C22_FollowerWhenNotLast ==
    (AfterCmd("delete") /\ ret /\ pre.index + 1 < pre.size) =>
        /\ out = Line("title", pre.marks[pre.index + 2])
        /\ At(Fetch, current_index) = pre.marks[pre.index + 2]

\* the number of white-space characters a text starts with
RECURSIVE LeadingWhitespace(_)
LeadingWhitespace(t) ==
    IF t = << >> \/ Head(t) \notin Whitespace THEN 0
    ELSE 1 + LeadingWhitespace(Tail(t))

\* C23: for every text and every list of spans (s, e) with
\* 0 <= s <= e <= len(text), each returned sentence has
\* 0 <= start_char < end_char <= len(text), start_char is s plus the number
\* of leading white-space characters of the span, end_char is e, and the
\* sentences come in the order of the spans they were made from.
C23_OffsetBounds ==
    seg_done =>
        LET kept == Kept(seg_text, seg_spans)
        IN  /\ Len(seg_out) = Len(kept)
            /\ \A i \in 1..Len(seg_out) :
                  /\ 0 <= seg_out[i].start_char
                  /\ seg_out[i].start_char < seg_out[i].end_char
                  /\ seg_out[i].end_char <= Len(seg_text)
                  /\ i <= Len(kept) =>
                        /\ seg_out[i].start_char = kept[i].s
                              + LeadingWhitespace(Slice(seg_text, kept[i].s, kept[i].e))
                        /\ seg_out[i].end_char = kept[i].e
            /\ \A i, j \in 1..Len(seg_out) :
                  i < j => seg_out[i].end_char <= seg_out[j].start_char

\* two sentences returned, the first from a span that starts with white space
C23_Witness ==
    /\ seg_done
    /\ Len(seg_spans) = 2
    /\ Len(seg_out) = 2
    /\ seg_out[1].start_char = seg_spans[1].s + 1
    /\ seg_out[1].end_char = seg_spans[1].e
    /\ seg_out[2].start_char = seg_spans[2].s

\* the commands that may move the cursor
MovingCommands == {"next", "prev", "first", "last", "number", "read n"}
\* the commands C24 lists as leaving the cursor where it is
FrameCommands ==
    {"bookmarks", "title", "read", "add", "delete", "star", "archive", "highlight",
     "speak"}

\* C24: current_index is never negative, and in every state of a command
\* other than next, prev, first, last, a bare number and read <number>
\* (every state of a speak session included, whatever keys were read)
\* current_index is what it was when the command started.
C24_CursorFrame ==
    /\ current_index >= 0
    /\ cmd.name \in FrameCommands => current_index = pre.index
    /\ (cmd.name # "none" /\ current_index # pre.index) =>
          cmd.name \in MovingCommands

\* a speak session on the second bookmark that read a highlight key and
\* other keys has ended
C24_Witness ==
    /\ AfterCmd("speak")
    /\ pre.index = 1
    /\ current_index = 1
    /\ nhl > 0
    /\ nkeys > 2
    /\ entered

\* the manager reached m.create_highlight: the call succeeded or the store
\* refused it
HighlightInvoked == hl.raised = "none" /\ hl.error \in {"None", "str(e)"}

C25_HighlightOnCursorBookmark ==
    (InSession /\ HighlightInvoked) =>
        /\ hl.text = sentences[prev_index + 1].text
        /\ sentences = SessionTexts
        /\ InRange(Fetch, current_index) => hl.id = At(Fetch, current_index)

\* the indices 0 .. n-1 in order
UpTo(n) == [i \in 1..n |-> i - 1]
\* every key read so far in the session was an advance key, and no interrupt
\* was raised
OnlyAdvances == advances = nkeys /\ exc # "KeyboardInterrupt"
\* the exits of the key loop and the place of the key read
TerminationRules ==
    /\ OnlyAdvances =>
          /\ pc = "key" => (nkeys < Len(sentences) /\ shown = UpTo(nkeys + 1))
          /\ Left => (nkeys = Len(sentences) /\ shown = UpTo(Len(sentences)))
    /\ (lower(key) = "q" \/ advances - backs >= Len(sentences)) => Left
    /\ pc = "key" => (lower(key) # "q" /\ advances - backs < Len(sentences))
    /\ sentence_index = advances - backs

\* C26: in every speak session of N >= 1 sentences, a key stream of advance
\* keys only renders the sentences 0 .. N-1 once each in order and the mode
\* is left after exactly N keys; for any key stream the loop has been left
\* once a quit key was read or the advance keys outnumber the back keys that
\* moved the cursor by N; and a key is read only while the loop has not been
\* left.
C26_SpeakTermination == Started => TerminationRules

\* the part of C26 the code keeps: the same for the sessions whose sentence
\* list holds plain strings
C26_TerminationOfTextSessions ==
    (Started /\ IsStr(sentences[1])) => TerminationRules

====
